---- MODULE Spec2Model ----
(***************************************************************************)
(* sqlite2parquet: the batched write pipeline of lib.rs (mk_table,         *)
(* write_group, write_col), the value coercions of conversion.rs, the      *)
(* progress bookkeeping of main.rs/lib.rs and the per-column schema        *)
(* inference of schema.rs.                                                 *)
(*                                                                         *)
(* Four specifications share the module:                                   *)
(*   Spec       - one run of mk_table over one table (the write pipeline); *)
(*   SpecInfer  - one run of infer_schema over one declared column;        *)
(*   SpecWriter - one call of mk_writer over a list of column plans;       *)
(*   SpecRun    - one run of the command line (run / main) over a database.*)
(***************************************************************************)
EXTENDS Integers, Sequences, FiniteSets, TLC

\* ------------------------------------------------------------------ bounds
\* Largest number of rows of the source table.
MaxRows == 3
\* Largest caller-supplied --group-size (0 is included: usize).
MaxGroupSize == 3
\* At most this many cells of a table deviate from the column's default cell.
MaxSpecial == 1
\* A synthetic cursor may yield up to this many rows fewer than the table has.
MaxTrunc == 1

\* ---------------------------------------------------------- 64-bit numbers
\* An i64 (or an integral f64) is kept as two limbs, hi * 65536 + lo with
\* 0 <= lo < 65536, so that values on both sides of the i32 range exist.
W(n) == [hi |-> n \div 65536, lo |-> n % 65536]

ToInt(w) == w.hi * 65536 + w.lo

WLe(a, b) == a.hi < b.hi \/ (a.hi = b.hi /\ a.lo <= b.lo)

WNeg(w) == IF w.lo = 0 THEN [hi |-> -w.hi, lo |-> 0]
           ELSE [hi |-> -w.hi - 1, lo |-> 65536 - w.lo]

WSucc(w) == IF w.lo = 65535 THEN [hi |-> w.hi + 1, lo |-> 0]
            ELSE [hi |-> w.hi, lo |-> w.lo + 1]

WPred(w) == IF w.lo = 0 THEN [hi |-> w.hi - 1, lo |-> 65535]
            ELSE [hi |-> w.hi, lo |-> w.lo - 1]

\* i32::MAX and i32::MIN as i64 (schema.rs:55-56, i32::try_from).
I32_MAX == [hi |-> 32767, lo |-> 65535]
I32_MIN == [hi |-> -32768, lo |-> 0]

\* ----------------------------------------------------------- source cells
\* rusqlite::types::ValueRef: Null | Integer(i64) | Real(f64) | Text | Blob.
\* v carries the number of an Integer or (integral) Real, bytes the content
\* of a Text or Blob.
Null == [tag |-> "Null", v |-> W(0), bytes |-> <<>>]
Integer(w) == [tag |-> "Integer", v |-> w, bytes |-> <<>>]
Real(w) == [tag |-> "Real", v |-> w, bytes |-> <<>>]
Text(b) == [tag |-> "Text", v |-> W(0), bytes |-> b]
Blob(b) == [tag |-> "Blob", v |-> W(0), bytes |-> b]

\* Decimal digits of a number >= 0, most significant first (long division
\* of the two limbs by ten).
RECURSIVE Digits(_)
Digits(w) ==
    IF w.hi = 0 /\ w.lo < 10
    THEN <<w.lo>>
    ELSE LET t == (w.hi % 10) * 65536 + w.lo
         IN Append(Digits([hi |-> w.hi \div 10, lo |-> t \div 10]), t % 10)

\* i64::to_string / f64::to_string of an integral value, as bytes: an
\* optional sign (45 is '-') followed by the ASCII digits.
to_string(w) ==
    LET neg == w.hi < 0
        ds == Digits(IF neg THEN WNeg(w) ELSE w)
        asc == [i \in 1..Len(ds) |-> 48 + ds[i]]
    IN IF neg THEN <<45>> \o asc ELSE asc

\* -------------------------------------------------------- target values
\* One element of a column writer's value buffer.  res is "Ok" for a value,
\* "Err" for an anyhow error and "Panic" for todo!()/unreachable!().
OkVal(ty, w, b) == [res |-> "Ok", ty |-> ty, v |-> w, bytes |-> b]
ErrVal(why) == [res |-> "Err", ty |-> why, v |-> W(0), bytes |-> <<>>]
PanicVal(why) == [res |-> "Panic", ty |-> why, v |-> W(0), bytes |-> <<>>]

\* `x as f32` for an integral f64: exact up to 2^24, beyond that rounded to
\* the 24-bit significand (ties to even).
RECURSIVE Quantum(_, _)
Quantum(a, q) == IF a < 16777216 * q THEN q ELSE Quantum(a, 2 * q)

as_f32(n) ==
    LET a == IF n < 0 THEN -n ELSE n
        q == Quantum(a, 1)
        lo == (a \div q) * q
        r == a - lo
        up == IF 2 * r > q \/ (2 * r = q /\ ((a \div q) % 2 = 1)) THEN lo + q ELSE lo
    IN IF n < 0 THEN -up ELSE up

\* A physical type of a column plan: pt names the parquet writer variant,
\* len is the length of a FixedLenByteArray (0 otherwise).
PT(pt) == [pt |-> pt, len |-> 0]
FixedLen(n) == [pt |-> "FixedLenByteArray", len |-> n]

\* conversion.rs: FromSqlite::from_sqlite for the value type of each column
\* writer (bool, i32, i64, Int96, f32, f64, ByteArray, FixedLenByteArray).
from_sqlite(pt, x) ==
    CASE pt.pt = "Boolean" ->
           IF x.tag = "Integer" THEN OkVal("bool", IF x.v = W(1) THEN W(1) ELSE W(0), <<>>)
           ELSE IF x.tag = "Null" THEN PanicVal("unreachable")
           ELSE ErrVal("CantConvert")
      [] pt.pt = "Int32" ->
           IF x.tag = "Integer"
           THEN IF WLe(I32_MIN, x.v) /\ WLe(x.v, I32_MAX)
                THEN OkVal("i32", x.v, <<>>)
                ELSE ErrVal("TryFromIntError")
           ELSE IF x.tag = "Null" THEN PanicVal("unreachable")
           ELSE ErrVal("CantConvert")
      [] pt.pt = "Int64" ->
           IF x.tag = "Integer" THEN OkVal("i64", x.v, <<>>)
           ELSE IF x.tag = "Null" THEN PanicVal("unreachable")
           ELSE ErrVal("CantConvert")
      [] pt.pt = "Int96" ->
           IF x.tag = "Integer" THEN PanicVal("todo")
           ELSE IF x.tag = "Null" THEN PanicVal("unreachable")
           ELSE ErrVal("CantConvert")
      [] pt.pt = "Float" ->
           IF x.tag = "Real" THEN OkVal("f32", W(as_f32(ToInt(x.v))), <<>>)
           ELSE IF x.tag = "Null" THEN PanicVal("unreachable")
           ELSE ErrVal("CantConvert")
      [] pt.pt = "Double" ->
           IF x.tag = "Real" THEN OkVal("f64", x.v, <<>>)
           ELSE IF x.tag = "Null" THEN PanicVal("unreachable")
           ELSE ErrVal("CantConvert")
      [] pt.pt = "ByteArray" ->
           IF x.tag \in {"Integer", "Real"} THEN OkVal("bytes", W(0), to_string(x.v))
           ELSE IF x.tag \in {"Text", "Blob"} THEN OkVal("bytes", W(0), x.bytes)
           ELSE PanicVal("unreachable")
      [] pt.pt = "FixedLenByteArray" ->
           IF x.tag \in {"Text", "Blob"} THEN PanicVal("todo")
           ELSE IF x.tag = "Null" THEN PanicVal("unreachable")
           ELSE ErrVal("CantConvert")

\* ------------------------------------------------------------ the cursors
\* Option::None of Rows::get / Take::get.
NoRow == [tag |-> "None", v |-> W(0), bytes |-> <<>>]

\* rusqlite Rows over the rows d of one column's SELECT: pos is the index of
\* the current row, 0 before the first advance, Len(d)+1 once exhausted.
rows_get(d, pos) == IF pos >= 1 /\ pos <= Len(d) THEN d[pos] ELSE NoRow

rows_advance(d, pos) == IF pos <= Len(d) THEN pos + 1 ELSE pos

\* fallible_streaming_iterator::Take wrapped around a cursor by
\* `x.take(group_size)`: get yields the wrapped cursor's current row until
\* done is set; advance moves the wrapped cursor while n > 0 and sets done
\* on the first call with n = 0.
take(pos, n) == [pos |-> pos, n |-> n, done |-> FALSE]

take_get(d, t) == IF t.done THEN NoRow ELSE rows_get(d, t.pos)

take_advance(d, t) ==
    IF t.n # 0
    THEN [t EXCEPT !.pos = rows_advance(d, t.pos), !.n = t.n - 1]
    ELSE [t EXCEPT !.done = TRUE]

\* write_col_loop with the null test left out: every cell is coerced.
RECURSIVE write_col_loop_NoIntercept(_, _, _)
write_col_loop_NoIntercept(d, pt, st) ==
    LET x == take_get(d, st.t)
    IN IF x = NoRow
       THEN st
       ELSE LET r == from_sqlite(pt, x)
            IN IF r.res = "Panic"
               THEN [st EXCEPT !.panic = r.ty]
               ELSE write_col_loop_NoIntercept(d, pt,
                        [st EXCEPT !.reps = Append(@, 1),
                                   !.defs = Append(@, 1),
                                   !.vals = Append(@, r),
                                   !.t = take_advance(d, st.t)])

\* write_col: the get / push / advance loop over one column's Take.  st is
\* [t, reps, defs, vals, panic]; the result is the state at `break`, or at
\* the panic of a coercion.
RECURSIVE write_col_loop(_, _, _)
write_col_loop(d, pt, st) ==
    LET x == take_get(d, st.t)
    IN IF x = NoRow
       THEN st
       ELSE IF x = Null
            THEN write_col_loop(d, pt,
                     [st EXCEPT !.reps = Append(@, 0),
                                !.defs = Append(@, 0),
                                !.t = take_advance(d, st.t)])
            ELSE LET r == from_sqlite(pt, x)
                 IN IF r.res = "Panic"
                    THEN [st EXCEPT !.panic = r.ty]
                    ELSE write_col_loop(d, pt,
                             [st EXCEPT !.reps = Append(@, 1),
                                        !.defs = Append(@, 1),
                                        !.vals = Append(@, r),
                                        !.t = take_advance(d, st.t)])

write_col(d, pt, pos, n) ==
    write_col_loop(d, pt,
        [t |-> take(pos, n), reps |-> <<>>, defs |-> <<>>, vals |-> <<>>,
         panic |-> ""])

\* ------------------------------------------------- state of one mk_table run
VARIABLES
    data,             \* data[c]: the rows the cursor of column c yields
    plan,             \* plan[c]: physical type of column c (infer_schema's cols)
    group_size_arg,   \* the caller's --group-size
    pc,               \* position in mk_table / write_group
    error,            \* the error returned or the panic raised, "" if none
    group_size,       \* lib.rs:118 group_size.max(1)
    n_rows,           \* lib.rs:113 SELECT COUNT(1)
    cur,              \* cur[c]: position of the cursor of column c
    n_rows_written,   \* lib.rs:138
    n_groups_written, \* lib.rs:139
    n_cols_written,   \* lib.rs:186
    col_wtr,          \* the batch handed to the open column writer
    sink,             \* the parquet file writer
    ev,               \* what the environment did: callback / sink failures
    log               \* the calls made to the sink and to the progress callback

\* ------------------------------------------- state of one infer_schema run
VARIABLES
    i_pc,             \* position in infer_schema
    i_col,            \* the pragma_table_info row and the cells of the column
    i_info,           \* (type_name, type_len) parsed by the query_map closure
    i_out,            \* the Column produced, or the failure
    i_log             \* queries executed and warnings emitted

\* ---------------------------------------------- state of one mk_writer call
VARIABLES
    m_pc,             \* position in mk_writer
    m_cols,           \* the column plans handed to mk_writer
    m_schema,         \* the fields of the parquet schema built from them
    m_props           \* the WriterProperties built from them, per column

\* ------------------------------------------- state of one command line run
VARIABLES
    r_pc,             \* position in run / main
    r_db,             \* the names of the type = 'table' rows of sqlite_schema
    r_opts,           \* the parsed command line (and the keys of --config)
    r_tables,         \* the tables still to be extracted
    r_files           \* the parquet files written so far

wvars == <<data, plan, group_size_arg, pc, error, group_size, n_rows, cur,
           n_rows_written, n_groups_written, n_cols_written, col_wtr, sink, ev,
           log>>
ivars == <<i_pc, i_col, i_info, i_out, i_log>>
cvars == <<m_pc, m_cols, m_schema, m_props, r_pc, r_db, r_opts, r_tables, r_files>>
vars == <<data, plan, group_size_arg, pc, error, group_size, n_rows, cur,
          n_rows_written, n_groups_written, n_cols_written, col_wtr, sink, ev,
          log, i_pc, i_col, i_info, i_out, i_log,
          m_pc, m_cols, m_schema, m_props, r_pc, r_db, r_opts, r_tables, r_files>>

NCols == Len(plan)

\* -------------------------------------------------------- the input tables
\* The column plans the runs are checked with.
Schemas ==
    { <<PT("Int32")>>,
      <<PT("Int32"), PT("ByteArray")>>,
      <<PT("Float")>>,
      <<PT("Int64"), PT("Boolean")>>,
      <<PT("ByteArray"), FixedLen(2)>>,
      <<PT("Double"), PT("Int32")>> }

\* The cell a column of type pt holds in row r unless the table says
\* otherwise: distinct from row to row, and coercible where the type allows.
DefaultCell(pt, r) ==
    CASE pt.pt \in {"Int32", "Int64", "Boolean"} -> Integer(W(r))
      [] pt.pt \in {"Float", "Double"} -> Real(W(16777216 + r))
      [] pt.pt = "ByteArray" -> Text(<<96 + r>>)
      [] OTHER -> Integer(W(r))

\* The cells that may replace a default cell.
Specials == {Null, Integer(WSucc(I32_MAX)), Text(<<97, 98>>)}

NoCol == [defs |-> <<>>, reps |-> <<>>, vals |-> <<>>]

NoEvents == [cb_err |-> FALSE, batch_err |-> FALSE]

EmptySink == [groups |-> <<>>, open |-> <<>>, in_group |-> FALSE,
              rows |-> -1, closed |-> FALSE]

InferIdle ==
    /\ i_pc = "off"
    /\ i_col = <<>>
    /\ i_info = <<>>
    /\ i_out = <<>>
    /\ i_log = {}

WriterIdle ==
    /\ m_pc = "off"
    /\ m_cols = <<>>
    /\ m_schema = <<>>
    /\ m_props = <<>>

RunIdle ==
    /\ r_pc = "off"
    /\ r_db = <<>>
    /\ r_opts = <<>>
    /\ r_tables = <<>>
    /\ r_files = <<>>

Init ==
    /\ InferIdle
    /\ WriterIdle
    /\ RunIdle
    /\ \E sch \in Schemas, n \in 0..MaxRows :
         \E S \in {S \in SUBSET ((1..Len(sch)) \X (1..n)) : Cardinality(S) <= MaxSpecial} :
           \E sp \in [S -> Specials], tc \in 1..Len(sch), t \in 0..MaxTrunc :
             /\ t <= n
             /\ plan = sch
             /\ data = [c \in 1..Len(sch) |->
                          [r \in 1..(IF c = tc THEN n - t ELSE n) |->
                             IF <<c, r>> \in S THEN sp[<<c, r>>]
                             ELSE DefaultCell(sch[c], r)]]
             /\ n_rows = n
    /\ group_size_arg \in 0..MaxGroupSize
    /\ pc = "start"
    /\ error = ""
    /\ group_size = 0
    /\ cur = [c \in 1..Len(plan) |-> 0]
    /\ n_rows_written = 0
    /\ n_groups_written = 0
    /\ n_cols_written = 0
    /\ col_wtr = NoCol
    /\ sink = EmptySink
    /\ ev = NoEvents
    /\ log = <<>>

\* One entry of the log: a call of a FileWriter / RowGroupWriter /
\* ColumnWriter method, or a call of the progress callback with the
\* (columns, rows, groups) written that it is given.
SinkCall(op) == [op |-> op, cols |-> 0, rows |-> 0, groups |-> 0]

ProgressCall(op, c, r, g) == [op |-> op, cols |-> c, rows |-> r, groups |-> g]

\* ------------------------------------------------------------ the actions
Max(a, b) == IF a >= b THEN a ELSE b

\* lib.rs mk_table up to the loop: clamp the group size, open the writer,
\* open one cursor per column and advance each once.
StartWrite ==
    /\ group_size' = Max(group_size_arg, 1)
    /\ sink' = EmptySink
    /\ cur' = [c \in 1..NCols |-> rows_advance(data[c], cur[c])]
    /\ pc' = "loop"
    /\ UNCHANGED <<error, n_rows_written, n_groups_written, n_cols_written,
                   col_wtr, ev, log>>

\* lib.rs mk_table, lines 107-139.
MkTableLib ==
    /\ pc = "start"
    /\ StartWrite
    /\ UNCHANGED <<data, plan, group_size_arg, n_rows>>
    /\ UNCHANGED ivars
    /\ UNCHANGED cvars

\* main.rs mk_table, lines 134-151: the total group count is computed in u64
\* from the caller's group_size before the clamp of line 140, then the
\* table write runs with the clamped size.
MkTableMain ==
    /\ pc = "start"
    /\ IF group_size_arg = 0
       THEN /\ pc' = "panicked"
            /\ error' \in {"DivideByZero"} \cup
                          (IF n_rows = 0 THEN {"SubtractOverflow"} ELSE {})
            /\ UNCHANGED <<group_size, sink, cur, n_rows_written,
                           n_groups_written, n_cols_written, col_wtr, ev, log>>
       ELSE StartWrite
    /\ UNCHANGED <<data, plan, group_size_arg, n_rows>>
    /\ UNCHANGED ivars
    /\ UNCHANGED cvars

\* lib.rs:141-146 and write_group's lib.rs:184-186: while the first cursor
\* has a row, wrap every cursor in Take(group_size) and open a row group.
Loop ==
    /\ pc = "loop"
    /\ IF rows_get(data[1], cur[1]) # NoRow
       THEN /\ sink' = [sink EXCEPT !.in_group = TRUE, !.open = <<>>, !.rows = -1]
            /\ n_cols_written' = 0
            /\ log' = Append(log, SinkCall("next_row_group"))
            /\ pc' = "next_column"
       ELSE /\ pc' = "final_progress"
            /\ UNCHANGED <<sink, n_cols_written, log>>
    /\ UNCHANGED <<data, plan, group_size_arg, error, group_size, n_rows, cur,
                   n_rows_written, n_groups_written, col_wtr, ev>>
    /\ UNCHANGED ivars
    /\ UNCHANGED cvars

\* print_progress (lib.rs:240-275): `n_rows - n_rows_written` is a u64
\* subtraction; the terminal write may fail.  The set of its outcomes.
print_progress(rows_written) ==
    (IF n_rows < rows_written THEN {"SubtractOverflow"} ELSE {})
    \cup {"Ok", "ProgressError"}

\* NextColumn with the callback's result dropped instead of returned.
NextColumn_IgnoreError ==
    /\ pc = "next_column"
    /\ IF n_cols_written < NCols
       THEN \E r \in print_progress(n_rows_written) :
              /\ pc' = IF r = "SubtractOverflow" THEN "panicked" ELSE "write_col"
              /\ error' = IF r = "SubtractOverflow" THEN r ELSE error
              /\ ev' = IF r = "ProgressError" THEN [ev EXCEPT !.cb_err = TRUE] ELSE ev
              /\ log' = log \o <<SinkCall("next_column"),
                                  ProgressCall("progress_cb", n_cols_written,
                                               n_rows_written, n_groups_written)>>
       ELSE /\ pc' = "close_row_group"
            /\ log' = Append(log, SinkCall("next_column_none"))
            /\ UNCHANGED <<error, ev>>
    /\ UNCHANGED <<data, plan, group_size_arg, group_size, n_rows, cur,
                   n_rows_written, n_groups_written, n_cols_written, col_wtr, sink>>
    /\ UNCHANGED ivars
    /\ UNCHANGED cvars

\* write_group, lib.rs:187-188: next_column, then the progress callback
\* with the number of columns written so far in this group.
NextColumn ==
    /\ pc = "next_column"
    /\ IF n_cols_written < NCols
       THEN \E r \in print_progress(n_rows_written) :
              /\ pc' = CASE r = "Ok" -> "write_col"
                         [] r = "ProgressError" -> "aborted"
                         [] OTHER -> "panicked"
              /\ error' = IF r = "Ok" THEN error ELSE r
              /\ ev' = IF r = "ProgressError" THEN [ev EXCEPT !.cb_err = TRUE] ELSE ev
              /\ log' = log \o <<SinkCall("next_column"),
                                  ProgressCall("progress_cb", n_cols_written,
                                               n_rows_written, n_groups_written)>>
       ELSE /\ pc' = "close_row_group"
            /\ log' = Append(log, SinkCall("next_column_none"))
            /\ UNCHANGED <<error, ev>>
    /\ UNCHANGED <<data, plan, group_size_arg, group_size, n_rows, cur,
                   n_rows_written, n_groups_written, n_cols_written, col_wtr, sink>>
    /\ UNCHANGED ivars
    /\ UNCHANGED cvars

\* write_group's lib.rs:189-201 and write_col, lib.rs:209-238: drain the
\* column's Take into the buffers and hand them to write_batch, whose
\* result is unwrapped.
WriteCol ==
    /\ pc = "write_col"
    /\ LET c == n_cols_written + 1
           w == write_col(data[c], plan[c], cur[c], group_size)
       IN IF w.panic # ""
          THEN /\ pc' = "panicked"
               /\ error' = w.panic
               /\ UNCHANGED <<cur, col_wtr, ev, log>>
          ELSE \E ok \in BOOLEAN :
                 /\ cur' = [cur EXCEPT ![c] = w.t.pos]
                 /\ log' = Append(log, SinkCall("write_batch"))
                 /\ IF ok
                    THEN /\ col_wtr' = [defs |-> w.defs, reps |-> w.reps, vals |-> w.vals]
                         /\ pc' = "close_column"
                         /\ UNCHANGED <<error, ev>>
                    ELSE /\ pc' = "panicked"
                         /\ error' = "unwrap"
                         /\ ev' = [ev EXCEPT !.batch_err = TRUE]
                         /\ UNCHANGED col_wtr
    /\ UNCHANGED <<data, plan, group_size_arg, group_size, n_rows,
                   n_rows_written, n_groups_written, n_cols_written, sink>>
    /\ UNCHANGED ivars
    /\ UNCHANGED cvars

\* CloseColumn with the result of close_column dropped instead of returned.
CloseColumn_Unchecked ==
    /\ pc = "close_column"
    /\ sink' = [sink EXCEPT !.open = Append(@, col_wtr),
                            !.rows = IF @ = -1 THEN Len(col_wtr.defs) ELSE @]
    /\ n_cols_written' = n_cols_written + 1
    /\ pc' = "next_column"
    /\ col_wtr' = NoCol
    /\ log' = Append(log, SinkCall("close_column"))
    /\ UNCHANGED <<data, plan, group_size_arg, error, group_size, n_rows, cur,
                   n_rows_written, n_groups_written, ev>>
    /\ UNCHANGED ivars
    /\ UNCHANGED cvars

\* write_group, lib.rs:202-203: close_column.  The row group writer takes
\* the row count of the group from its first column chunk and rejects a
\* chunk with another count; the error is returned with `?`.
CloseColumn ==
    /\ pc = "close_column"
    /\ LET rows == Len(col_wtr.defs)
       IN IF sink.rows = -1 \/ sink.rows = rows
          THEN /\ sink' = [sink EXCEPT !.open = Append(@, col_wtr), !.rows = rows]
               /\ n_cols_written' = n_cols_written + 1
               /\ pc' = "next_column"
               /\ UNCHANGED error
          ELSE /\ pc' = "aborted"
               /\ error' = "IncorrectNumberOfRows"
               /\ UNCHANGED <<sink, n_cols_written>>
    /\ col_wtr' = NoCol
    /\ log' = Append(log, SinkCall("close_column"))
    /\ UNCHANGED <<data, plan, group_size_arg, group_size, n_rows, cur,
                   n_rows_written, n_groups_written, ev>>
    /\ UNCHANGED ivars
    /\ UNCHANGED cvars

\* write_group's lib.rs:205 and mk_table's lib.rs:158-159: close the row
\* group, then count group_size rows and one group as written.
CloseRowGroup ==
    /\ pc = "close_row_group"
    /\ sink' = [sink EXCEPT !.groups = Append(@, sink.open), !.open = <<>>,
                            !.in_group = FALSE, !.rows = -1]
    /\ n_rows_written' = n_rows_written + group_size
    /\ n_groups_written' = n_groups_written + 1
    /\ log' = Append(log, SinkCall("close_row_group"))
    /\ pc' = "loop"
    /\ UNCHANGED <<data, plan, group_size_arg, error, group_size, n_rows, cur,
                   n_cols_written, col_wtr, ev>>
    /\ UNCHANGED ivars
    /\ UNCHANGED cvars

\* mk_table, lib.rs:161-170: the final progress line, with every row
\* reported as written.
FinalProgress ==
    /\ pc = "final_progress"
    /\ \E r \in print_progress(n_rows) :
         /\ pc' = CASE r = "Ok" -> "close"
                    [] r = "ProgressError" -> "aborted"
                    [] OTHER -> "panicked"
         /\ error' = IF r = "Ok" THEN error ELSE r
         /\ ev' = IF r = "ProgressError" THEN [ev EXCEPT !.cb_err = TRUE] ELSE ev
    /\ log' = Append(log, ProgressCall("print_progress", NCols, n_rows,
                                       n_groups_written))
    /\ UNCHANGED <<data, plan, group_size_arg, group_size, n_rows, cur,
                   n_rows_written, n_groups_written, n_cols_written, col_wtr, sink>>
    /\ UNCHANGED ivars
    /\ UNCHANGED cvars

\* mk_table, lib.rs:172-174: finalize the writer and summarize.
Close ==
    /\ pc = "close"
    /\ sink' = [sink EXCEPT !.closed = TRUE]
    /\ log' = Append(log, SinkCall("close"))
    /\ pc' = "done"
    /\ UNCHANGED <<data, plan, group_size_arg, error, group_size, n_rows, cur,
                   n_rows_written, n_groups_written, n_cols_written, col_wtr, ev>>
    /\ UNCHANGED ivars
    /\ UNCHANGED cvars

Next ==
    \/ MkTableLib
    \/ MkTableMain
    \/ Loop
    \/ NextColumn
    \/ WriteCol
    \/ CloseColumn
    \/ CloseRowGroup
    \/ FinalProgress
    \/ Close

Spec == Init /\ [][Next]_vars

\* ------------------------------------------------------------ read-back
\* What a reader of the file gets for one column chunk: per presence marker
\* a null or the next value of the chunk.
NullVal == [res |-> "Null", ty |-> "", v |-> W(0), bytes |-> <<>>]

RECURSIVE ReadBack(_, _)
ReadBack(defs, vals) ==
    IF defs = <<>> THEN <<>>
    ELSE IF Head(defs) = 0
         THEN <<NullVal>> \o ReadBack(Tail(defs), vals)
         ELSE IF vals = <<>> THEN <<>>
              ELSE <<Head(vals)>> \o ReadBack(Tail(defs), Tail(vals))

RECURSIVE ReadColumn(_, _)
ReadColumn(groups, c) ==
    IF groups = <<>> THEN <<>>
    ELSE ReadBack(Head(groups)[c].defs, Head(groups)[c].vals)
         \o ReadColumn(Tail(groups), c)

\* The cells of column c of the source, as written cells.
SourceColumn(c) ==
    [r \in 1..Len(data[c]) |->
        IF data[c][r] = Null THEN NullVal ELSE from_sqlite(plan[c], data[c][r])]

\* Every cursor yields every row of the table.
WholeTable == \A c \in 1..NCols : Len(data[c]) = n_rows

GroupRows(g) == Len(sink.groups[g][1].defs)

RECURSIVE SumRows(_)
SumRows(k) == IF k = 0 THEN 0 ELSE GroupRows(k) + SumRows(k - 1)

CeilDiv(a, b) == (a + b - 1) \div b

\* C1: after a successful write of a table (group_size >= 1), reading each
\* column back over all row groups in order gives exactly the column's
\* source cells in row order: no row duplicated or dropped, nulls at the
\* same offsets.
C1_RoundTrip ==
    (pc = "done" /\ WholeTable /\ group_size_arg >= 1)
        => \A c \in 1..NCols : ReadColumn(sink.groups, c) = SourceColumn(c)

\* C2: a successful write of N rows with group size g >= 1 produces
\* ceil(N/g) row groups, all of g rows except the last, which holds the
\* rest; the row counts of the groups add up to N.
C2_Chunking ==
    (pc = "done" /\ WholeTable /\ group_size_arg >= 1)
        => /\ Len(sink.groups) = CeilDiv(n_rows, group_size_arg)
           /\ \A k \in 1..Len(sink.groups) :
                GroupRows(k) = IF k < Len(sink.groups) THEN group_size_arg
                               ELSE n_rows - group_size_arg * (Len(sink.groups) - 1)
           /\ SumRows(Len(sink.groups)) = n_rows

\* C3: when a non-first column yields, in some row group, another number of
\* rows than the first column did, the write fails with the row count
\* error and stays aborted, the file unfinalized; no successful write holds
\* columns of unequal length.
C3_RowCountMismatch ==
    /\ [][(/\ pc = "close_column"
           /\ n_cols_written >= 1
           /\ Len(col_wtr.defs) # Len(sink.open[1].defs))
             => (/\ pc' = "aborted"
                 /\ error' = "IncorrectNumberOfRows"
                 /\ ~sink'.closed)]_vars
    /\ [][pc = "aborted" => pc' = "aborted"]_vars
    /\ [](pc = "done" =>
            \A g \in 1..Len(sink.groups) : \A c \in 1..NCols :
                Len(sink.groups[g][c].defs) = Len(sink.groups[g][1].defs))

C3_Witness ==
    /\ pc = "aborted"
    /\ error = "IncorrectNumberOfRows"
    /\ Len(sink.groups) >= 1

\* C4: once the progress callback has returned an error, the write has
\* returned that error: nothing more reaches the sink, no row group is
\* opened and the sink is never finalized.
C4_Cancellation ==
    /\ [](ev.cb_err => (pc = "aborted" /\ error = "ProgressError" /\ ~sink.closed))
    /\ [][ev.cb_err => (sink' = sink /\ col_wtr' = col_wtr)]_vars

C4_Witness ==
    /\ ev.cb_err
    /\ pc = "aborted"
    /\ Len(sink.groups) >= 1
    /\ sink.in_group
    /\ Len(sink.open) >= 1

\* C5: for every caller-supplied group_size >= 0 and every row count, the
\* table write runs with batch size max(group_size, 1) and meets no
\* arithmetic fault (division by zero, unsigned underflow).
C5_GroupSizeMinimum ==
    /\ error \notin {"DivideByZero", "SubtractOverflow"}
    /\ pc # "start" => group_size = Max(group_size_arg, 1)

\* A coercion of a non-null cell has failed: by panic, or with an error
\* that sits in a value buffer.
HasErr(vals) == \E i \in 1..Len(vals) : vals[i].res = "Err"

CoercionFailed ==
    \/ error \in {"todo", "unreachable"}
    \/ HasErr(col_wtr.vals)
    \/ \E c \in 1..Len(sink.open) : HasErr(sink.open[c].vals)
    \/ \E g \in 1..Len(sink.groups) : \E c \in 1..NCols : HasErr(sink.groups[g][c].vals)

\* C6: a run in which a coercion or the sink's write_batch failed ends by
\* returning an error, with the sink not finalized: it neither completes
\* nor crashes.
C6_WriteErrorsFatal ==
    (pc \in {"done", "aborted", "panicked"} /\ (ev.batch_err \/ CoercionFailed))
        => (pc = "aborted" /\ ~sink.closed)

\* The cells of column c the write loop has coerced so far: those the
\* cursor has passed, and any cell of the column whose loop a panic ended.
CellsMet(c) ==
    IF pc = "panicked" /\ c = n_cols_written + 1
    THEN {data[c][r] : r \in 1..Len(data[c])}
    ELSE {data[c][r] : r \in 1..(cur[c] - 1)}

\* C11: the coercion to FixedByteArray(n) gives, for a Text or Blob cell of
\* n bytes, the fixed-length value of those bytes; for a Text or Blob cell
\* of another length a FixedLengthMismatchError; for an Integer or Real cell
\* a type-mismatch error; and it never crashes.
C11_FixedByteArrayCoercion ==
    /\ error # "todo"
    /\ \A c \in 1..NCols :
         plan[c].pt = "FixedLenByteArray" =>
           \A x \in CellsMet(c) \ {Null} :
             LET r == from_sqlite(plan[c], x)
             IN /\ r.res # "Panic"
                /\ (x.tag \in {"Text", "Blob"} /\ Len(x.bytes) = plan[c].len)
                      => r = OkVal("fixed", W(0), x.bytes)
                /\ (x.tag \in {"Text", "Blob"} /\ Len(x.bytes) # plan[c].len)
                      => r = ErrVal("FixedLengthMismatchError")
                /\ x.tag \in {"Integer", "Real"} => r.res = "Err"

\* ------------------------------------------------------ claims on the log
\* The entries of the log up to entry i that are calls of op.
CallsUpTo(i, op) == {j \in 1..i : log[j].op = op}

\* The entry that opened the row group entry i lies in (0 if none).
GroupStart(i) ==
    IF CallsUpTo(i, "next_row_group") = {} THEN 0
    ELSE CHOOSE j \in CallsUpTo(i, "next_row_group") :
           \A k \in CallsUpTo(i, "next_row_group") : k <= j

\* The columns closed in the row group of entry i before entry i.
ColumnsClosed(i) ==
    Cardinality({j \in CallsUpTo(i, "close_column") : j > GroupStart(i)})

GroupsClosed(i) == Cardinality(CallsUpTo(i, "close_row_group"))

\* C13: in each row group the progress callback is invoked once after each
\* column is closed, reporting k columns after the k-th close, k = column
\* count included; the rows and groups it reports are the rows and row
\* groups written so far.
C13_ProgressReporting ==
    /\ \A i \in 1..Len(log) :
         log[i].op = "progress_cb" =>
           /\ i > 1
           /\ log[i - 1].op = "close_column"
           /\ log[i].cols = ColumnsClosed(i)
           /\ log[i].cols \in 1..NCols
           /\ log[i].groups = GroupsClosed(i)
           /\ log[i].rows = SumRows(GroupsClosed(i))
    /\ \A i \in 1..(Len(log) - 1) :
         log[i].op = "close_column" => log[i + 1].op = "progress_cb"

\* The calls made to the sink, in order.
IsSinkCall(e) == e.op \notin {"progress_cb", "print_progress"}

SinkLog == SelectSeq(log, IsSinkCall)

\* The protocol of the sink as an automaton over its calls: phase is where
\* the protocol stands and k the columns closed in the open row group; the
\* result is the phase after the calls, "bad" once a call is out of order.
RECURSIVE SinkRun(_, _, _)
SinkRun(calls, phase, k) ==
    IF calls = <<>> \/ phase = "bad" THEN phase
    ELSE LET op == Head(calls).op
             rest == Tail(calls)
         IN CASE phase = "idle" /\ op = "next_row_group" -> SinkRun(rest, "group", 0)
              [] phase = "idle" /\ op = "close" -> SinkRun(rest, "closed", 0)
              [] phase = "group" /\ op = "next_column" /\ k < NCols ->
                   SinkRun(rest, "column", k)
              [] phase = "group" /\ op = "next_column_none" /\ k = NCols ->
                   SinkRun(rest, "columns_done", k)
              [] phase = "column" /\ op = "write_batch" -> SinkRun(rest, "batch", k)
              [] phase = "batch" /\ op = "close_column" -> SinkRun(rest, "group", k + 1)
              [] phase = "columns_done" /\ op = "close_row_group" ->
                   SinkRun(rest, "idle", 0)
              [] OTHER -> "bad"

\* C16: the sink calls of a run follow next_row_group, then per column
\* next_column, one write_batch, close_column, then close_row_group, a row
\* group being closed before the next is opened; close is called once,
\* after the last row group is closed and only when no error occurred, and
\* no sink call follows it.
C16_SinkProtocol ==
    /\ SinkRun(SinkLog, "idle", 0) # "bad"
    /\ pc = "done" => SinkRun(SinkLog, "idle", 0) = "closed"
    /\ SinkRun(SinkLog, "idle", 0) = "closed" =>
         /\ error = ""
         /\ ~ev.cb_err
         /\ ~ev.batch_err
         /\ ~CoercionFailed

\* ------------------------------------------------- claims on the cursors
Min(a, b) == IF a <= b THEN a ELSE b

\* The rows the cursor of column c has left, its current row included.
Remaining(c) == Len(data[c]) - cur[c] + 1

\* C15: in every row group the write of a column reads exactly
\* min(group_size, rows remaining) cells and moves the column's cursor by
\* as many positions; at every row-group boundary all cursors stand at the
\* same row.
C15_LockStep ==
    /\ [][(pc = "write_col" /\ pc' = "close_column") =>
            LET c == n_cols_written + 1
                k == Min(group_size, Remaining(c))
            IN /\ Len(col_wtr'.defs) = k
               /\ cur'[c] - cur[c] = k]_vars
    /\ [](pc = "loop" => \A c \in 1..NCols : cur[c] = cur[1])

\* ======================================================== schema inference
\* Strings are sequences of one-character strings.
LowerCase == <<"a", "b", "c", "d", "e", "f", "g", "h", "i", "j", "k", "l", "m",
               "n", "o", "p", "q", "r", "s", "t", "u", "v", "w", "x", "y", "z">>
UpperCase == <<"A", "B", "C", "D", "E", "F", "G", "H", "I", "J", "K", "L", "M",
               "N", "O", "P", "Q", "R", "S", "T", "U", "V", "W", "X", "Y", "Z">>

\* str::to_uppercase
to_uppercase(str) ==
    [i \in 1..Len(str) |->
        IF \E k \in 1..26 : LowerCase[k] = str[i]
        THEN UpperCase[CHOOSE k \in 1..26 : LowerCase[k] = str[i]]
        ELSE str[i]]

\* str::starts_with
starts_with(str, prefix) ==
    /\ Len(str) >= Len(prefix)
    /\ SubSeq(str, 1, Len(prefix)) = prefix

\* The type names of the lookup table of infer_schema.
s_BOOL == <<"B", "O", "O", "L">>
s_DATE == <<"D", "A", "T", "E">>
s_TIME == <<"T", "I", "M", "E">>
s_DATETIME == <<"D", "A", "T", "E", "T", "I", "M", "E">>
s_TIMESTAMP == <<"T", "I", "M", "E", "S", "T", "A", "M", "P">>
s_UUID == <<"U", "U", "I", "D">>
s_INTERVAL == <<"I", "N", "T", "E", "R", "V", "A", "L">>
s_BIGINT == <<"B", "I", "G", "I", "N", "T">>
s_SMALLINT == <<"S", "M", "A", "L", "L", "I", "N", "T">>
s_NUM == <<"N", "U", "M">>
s_NUMBER == <<"N", "U", "M", "B", "E", "R">>
s_INT == <<"I", "N", "T">>
s_TEXT == <<"T", "E", "X", "T">>
s_CHAR == <<"C", "H", "A", "R">>
s_VARCHAR == <<"V", "A", "R", "C", "H", "A", "R">>
s_NVARCHAR == <<"N", "V", "A", "R", "C", "H", "A", "R">>
s_BLOB == <<"B", "L", "O", "B">>
s_BINARY == <<"B", "I", "N", "A", "R", "Y">>
s_VARBINARY == <<"V", "A", "R", "B", "I", "N", "A", "R", "Y">>
s_JSON == <<"J", "S", "O", "N">>
s_BSON == <<"B", "S", "O", "N">>
s_FLOAT == <<"F", "L", "O", "A", "T">>
s_REAL == <<"R", "E", "A", "L">>
s_DOUBLE == <<"D", "O", "U", "B", "L", "E">>

\* str::split_once(['[', '(']): the index of the first delimiter, 0 if none.
split_at(str) ==
    IF \E i \in 1..Len(str) : str[i] \in {"[", "("}
    THEN CHOOSE i \in 1..Len(str) :
           /\ str[i] \in {"[", "("}
           /\ \A j \in 1..(i - 1) : str[j] \notin {"[", "("}
    ELSE 0

DigitChars == <<"0", "1", "2", "3", "4", "5", "6", "7", "8", "9">>

IsDigit(ch) == \E k \in 1..10 : DigitChars[k] = ch

DigitOf(ch) == (CHOOSE k \in 1..10 : DigitChars[k] = ch) - 1

\* str::parse::<i32>: an optional sign, then one or more digits, the value
\* within the i32 range.  acc is accumulated with the sign applied, by a
\* checked multiplication and a checked addition or subtraction per digit.  The result is [ok, v].
RECURSIVE parse_digits(_, _, _)
parse_digits(str, sign, acc) ==
    IF str = <<>> THEN [ok |-> TRUE, v |-> acc]
    ELSE IF ~IsDigit(Head(str)) THEN [ok |-> FALSE, v |-> 0]
    ELSE LET d == DigitOf(Head(str))
             mul == acc * 10
         IN IF acc > 214748364 \/ acc < -214748364
            THEN [ok |-> FALSE, v |-> 0]
            ELSE IF sign > 0
                 THEN IF mul > 2147483647 - d
                      THEN [ok |-> FALSE, v |-> 0]
                      ELSE parse_digits(Tail(str), sign, mul + d)
                 ELSE IF mul < (-2147483647 - 1) + d
                      THEN [ok |-> FALSE, v |-> 0]
                      ELSE parse_digits(Tail(str), sign, mul - d)

parse_i32(str) ==
    IF str = <<>> THEN [ok |-> FALSE, v |-> 0]
    ELSE IF Head(str) \in {"+", "-"}
         THEN IF Tail(str) = <<>> THEN [ok |-> FALSE, v |-> 0]
              ELSE parse_digits(Tail(str), IF Head(str) = "-" THEN -1 ELSE 1, 0)
         ELSE parse_digits(str, 1, 0)

\* The query_map closure of infer_schema (schema.rs:24-30): the declared
\* type is split at the first '[' or '('; what follows must end in ']' or
\* ')' and parse as i32, or the unwraps panic.  has_len tells Some from None.
parse_type_string(type_string) ==
    LET i == split_at(type_string)
        y == SubSeq(type_string, i + 1, Len(type_string))
        stripped == y # <<>> /\ y[Len(y)] \in {"]", ")"}
        len == parse_i32(SubSeq(y, 1, Len(y) - 1))
    IN IF i = 0
       THEN [panic |-> FALSE, type_name |-> to_uppercase(type_string),
             has_len |-> FALSE, type_len |-> 0]
       ELSE IF ~stripped \/ ~len.ok
            THEN [panic |-> TRUE, type_name |-> <<>>, has_len |-> FALSE, type_len |-> 0]
            ELSE [panic |-> FALSE,
                  type_name |-> to_uppercase(SubSeq(type_string, 1, i - 1)),
                  has_len |-> TRUE, type_len |-> len.v]

\* The declared types the inference is checked with.
DeclaredTypes ==
    {
      <<"B", "O", "O", "L">>,
      <<"D", "A", "T", "E">>,
      <<"T", "I", "M", "E">>,
      <<"T", "I", "M", "E", "S", "T", "A", "M", "P">>,
      <<"U", "U", "I", "D">>,
      <<"U", "U", "I", "D", "(", "8", ")">>,
      <<"I", "N", "T", "E", "R", "V", "A", "L">>,
      <<"B", "I", "G", "I", "N", "T">>,
      <<"i", "n", "t", "e", "g", "e", "r">>,
      <<"I", "N", "T", "8">>,
      <<"N", "U", "M">>,
      <<"T", "E", "X", "T">>,
      <<"V", "A", "R", "C", "H", "A", "R", "[", "5", "]">>,
      <<"B", "L", "O", "B">>,
      <<"B", "L", "O", "B", "(", "4", ")">>,
      <<"B", "L", "O", "B", "(", "0", ")">>,
      <<"b", "i", "n", "a", "r", "y", "(", "-", "1", ")">>,
      <<"J", "S", "O", "N">>,
      <<"F", "L", "O", "A", "T">>,
      <<"R", "E", "A", "L">>,
      <<"M", "O", "N", "E", "Y">>,
      <<"m", "o", "n", "e", "y">>,
      <<"M", "O", "N", "E", "Y", "(", "1", "9", ")">>,
      <<"D", "E", "C", "I", "M", "A", "L", "(", "1", "0", ",", "2", ")">>,
      <<"N", "U", "M", "E", "R", "I", "C", "(", "+", "5", ")">>,
      <<"D", "O", "U", "B", "L", "E", " ", "P", "R", "E", "C", "I", "S", "I", "O", "N">>,
      <<>>
    }

\* The sample query draws at most this many rows (schema.rs:129).
SampleLimit == 1000

\* Largest number of rows of the column whose schema is inferred.
MaxInferRows == 4

\* The cells the column is filled from.
InferCells ==
    {Null, Integer(W(1)), Integer(I32_MAX), Integer(WSucc(I32_MAX)),
     Integer(I32_MIN), Integer(WPred(I32_MIN))}

\* SQL MIN / MAX over the non-null cells of a column: [some, v].
RECURSIVE sql_min(_)
sql_min(cells) ==
    IF cells = <<>> THEN [some |-> FALSE, v |-> W(0)]
    ELSE LET rest == sql_min(Tail(cells))
             x == Head(cells)
         IN IF x = Null THEN rest
            ELSE IF ~rest.some \/ WLe(x.v, rest.v) THEN [some |-> TRUE, v |-> x.v]
            ELSE rest

RECURSIVE sql_max(_)
sql_max(cells) ==
    IF cells = <<>> THEN [some |-> FALSE, v |-> W(0)]
    ELSE LET rest == sql_max(Tail(cells))
             x == Head(cells)
         IN IF x = Null THEN rest
            ELSE IF ~rest.some \/ WLe(rest.v, x.v) THEN [some |-> TRUE, v |-> x.v]
            ELSE rest

unwrap_or(opt, dflt) == IF opt.some THEN opt.v ELSE dflt

\* infer_integer with the upper bound compared strictly.
infer_integer_strict(cells) ==
    LET min == sql_min(cells)
        max == sql_max(cells)
    IN IF ~WLe(I32_MAX, unwrap_or(max, W(0))) /\ WLe(I32_MIN, unwrap_or(min, W(0)))
       THEN PT("Int32")
       ELSE PT("Int64")

\* infer_integer (schema.rs:49-62)
infer_integer(cells) ==
    LET min == sql_min(cells)
        max == sql_max(cells)
    IN IF WLe(unwrap_or(max, W(0)), I32_MAX) /\ WLe(I32_MIN, unwrap_or(min, W(0)))
       THEN PT("Int32")
       ELSE PT("Int64")

IntegerFamily(type_name) ==
    \/ type_name \in {s_BIGINT, s_SMALLINT, s_NUM, s_NUMBER}
    \/ starts_with(type_name, s_INT)

\* The match on the type name (schema.rs:63-92); unknown tells the last arm.
physical_type_of(type_name, has_len, type_len, cells) ==
    CASE type_name = s_BOOL -> PT("Boolean")
      [] type_name = s_DATE -> PT("Int32")
      [] type_name = s_TIME -> PT("Int64")
      [] type_name \in {s_DATETIME, s_TIMESTAMP} -> PT("Int64")
      [] type_name = s_UUID -> FixedLen(16)
      [] type_name = s_INTERVAL -> FixedLen(12)
      [] type_name \in {s_TEXT, s_CHAR, s_VARCHAR, s_NVARCHAR} -> PT("ByteArray")
      [] type_name \in {s_BLOB, s_BINARY, s_VARBINARY} ->
           IF has_len THEN FixedLen(type_len) ELSE PT("ByteArray")
      [] type_name \in {s_JSON, s_BSON} -> PT("ByteArray")
      [] type_name = s_FLOAT -> PT("Float")
      [] type_name \in {s_REAL, s_DOUBLE} -> PT("Double")
      [] OTHER -> IF IntegerFamily(type_name) THEN infer_integer(cells)
                  ELSE PT("ByteArray")

\* The type names some arm other than the last one matches.
KnownTypeName(type_name) ==
    \/ type_name \in {s_BOOL, s_DATE, s_TIME, s_DATETIME, s_TIMESTAMP, s_UUID,
                      s_INTERVAL, s_TEXT, s_CHAR, s_VARCHAR, s_NVARCHAR, s_BLOB,
                      s_BINARY, s_VARBINARY, s_JSON, s_BSON, s_FLOAT, s_REAL,
                      s_DOUBLE}
    \/ IntegerFamily(type_name)

\* PhysicalType::len (schema.rs:326-332)
has_length(pt) == pt.pt = "FixedLenByteArray"

\* The warnings of schema.rs:88-100.
warnings_of(type_name, has_len, type_len, pt) ==
    (IF ~KnownTypeName(type_name) THEN {"UnknownType"} ELSE {})
    \cup (IF has_len /\ ~has_length(pt) THEN {"IgnoringLength"} ELSE {})
    \cup (IF has_len /\ has_length(pt) /\ type_len # pt.len
          THEN {"OverridingLength"} ELSE {})

\* The match of schema.rs:101-116.
logical_type_of(type_name) ==
    CASE type_name \in {s_TEXT, s_CHAR, s_VARCHAR, s_NVARCHAR} -> "String"
      [] type_name = s_DATE -> "Date"
      [] type_name = s_TIME -> "Time(utc=false,Nanos)"
      [] type_name \in {s_DATETIME, s_TIMESTAMP} -> "Timestamp(utc=true,Nanos)"
      [] type_name = s_UUID -> "Uuid"
      [] type_name = s_JSON -> "Json"
      [] type_name = s_BSON -> "Bson"
      [] OTHER -> "None"

\* COUNT(*) ... WHERE name IS NULL
RECURSIVE count_nulls(_)
count_nulls(cells) ==
    IF cells = <<>> THEN 0
    ELSE (IF Head(cells) = Null THEN 1 ELSE 0) + count_nulls(Tail(cells))

\* COUNT(DISTINCT name): the distinct non-null cells.
RECURSIVE count_distinct(_, _)
count_distinct(cells, seen) ==
    IF cells = <<>> THEN 0
    ELSE IF Head(cells) = Null \/ Head(cells) \in seen
         THEN count_distinct(Tail(cells), seen)
         ELSE 1 + count_distinct(Tail(cells), seen \cup {Head(cells)})

\* dictionary_of with the threshold included.
dictionary_of_inclusive(pt, sample) ==
    IF pt.pt = "Boolean" THEN FALSE
    ELSE LET count == Len(sample)
             distinct == count_distinct(sample, {})
         IN IF count = 0 THEN FALSE
            ELSE 4 * distinct <= 3 * count

\* schema.rs:126-134: CAST(COUNT(DISTINCT) AS REAL) / COUNT(*) is NULL over
\* an empty sample, else compared with 0.75.  For counts up to SampleLimit
\* the rounded quotient is below 0.75 exactly when the exact quotient
\* distinct / count is, which is how it is compared here.
dictionary_of(pt, sample) ==
    IF pt.pt = "Boolean" THEN FALSE
    ELSE LET count == Len(sample)
             distinct == count_distinct(sample, {})
         IN IF count = 0 THEN FALSE
            ELSE 4 * distinct < 3 * count

\* The rows a sample of the column may consist of: LIMIT SampleLimit rows
\* in a random order.
RECURSIVE Pick(_, _)
Pick(cells, idx) ==
    IF idx = <<>> THEN <<>> ELSE <<cells[Head(idx)]>> \o Pick(cells, Tail(idx))

Samples(cells) ==
    IF Len(cells) <= SampleLimit
    THEN {cells}
    ELSE {Pick(cells, idx) :
            idx \in {f \in [1..SampleLimit -> 1..Len(cells)] :
                       \A a, b \in 1..SampleLimit : a < b => f[a] < f[b]}}

\* required_of with the count test inverted.
required_of_inverted(not_null, cells) == not_null \/ count_nulls(cells) # 0

\* schema.rs:42-47: `not_null || <count query>`; the query runs only when
\* the left operand is false.
required_of(not_null, cells) == not_null \/ count_nulls(cells) = 0

\* The queries the closure runs for one column.
queries_of(not_null, type_name, pt) ==
    (IF ~not_null THEN {"CountNulls"} ELSE {})
    \cup (IF IntegerFamily(type_name) /\ type_name # s_INTERVAL THEN {"MinMax"} ELSE {})
    \cup (IF pt.pt # "Boolean" THEN {"Sample"} ELSE {})

WriteIdle ==
    /\ data = <<>>
    /\ plan = <<>>
    /\ group_size_arg = 0
    /\ pc = "off"
    /\ error = ""
    /\ group_size = 0
    /\ n_rows = 0
    /\ cur = <<>>
    /\ n_rows_written = 0
    /\ n_groups_written = 0
    /\ n_cols_written = 0
    /\ col_wtr = NoCol
    /\ sink = EmptySink
    /\ ev = NoEvents
    /\ log = <<>>

\* One column of a table: its pragma_table_info row and its cells.  A
\* column declared NOT NULL holds no null.
InitInfer ==
    /\ WriteIdle
    /\ WriterIdle
    /\ RunIdle
    /\ \E ts \in DeclaredTypes, nn \in BOOLEAN, n \in 0..MaxInferRows :
         \E cells \in [1..n -> InferCells] :
           /\ nn => \A r \in 1..n : cells[r] # Null
           /\ i_col = [type_string |-> ts, not_null |-> nn, cells |-> cells]
    /\ i_pc = "start"
    /\ i_info = <<>>
    /\ i_out = <<>>
    /\ i_log = {}

\* infer_schema, schema.rs:19-34: read pragma_table_info and parse the
\* declared type of the column.
QueryMap ==
    /\ i_pc = "start"
    /\ LET p == parse_type_string(i_col.type_string)
       IN IF p.panic
          THEN /\ i_pc' = "panicked"
               /\ UNCHANGED i_info
          ELSE /\ i_pc' = "parsed"
               /\ i_info' = p
    /\ UNCHANGED <<i_col, i_out, i_log>>
    /\ UNCHANGED wvars
    /\ UNCHANGED cvars

\* infer_schema, schema.rs:35-148: the closure that turns the parsed row
\* into a Column.
InferColumn ==
    /\ i_pc = "parsed"
    /\ \E sample \in Samples(i_col.cells) :
         LET pt == physical_type_of(i_info.type_name, i_info.has_len,
                                    i_info.type_len, i_col.cells)
         IN /\ i_out' = [physical_type |-> pt,
                         logical_type |-> logical_type_of(i_info.type_name),
                         required |-> required_of(i_col.not_null, i_col.cells),
                         encoding |-> "None",
                         dictionary |-> dictionary_of(pt, sample)]
            /\ i_log' = [queries |-> queries_of(i_col.not_null, i_info.type_name, pt),
                         warnings |-> warnings_of(i_info.type_name, i_info.has_len,
                                                  i_info.type_len, pt),
                         sample |-> sample]
    /\ i_pc' = "done"
    /\ UNCHANGED <<i_col, i_info>>
    /\ UNCHANGED wvars
    /\ UNCHANGED cvars

NextInfer ==
    \/ QueryMap
    \/ InferColumn

SpecInfer == InitInfer /\ [][NextInfer]_vars

\* =============================================================== mk_writer
\* Largest number of column plans handed to mk_writer.
MaxWriterCols == 2

\* The encodings the plans are checked with (schema.rs:174-184), "None"
\* standing for Option::None.
PlanEncodings == {"None", "Plain", "DeltaBinaryPacked", "DeltaByteArray"}

\* The physical types the plans are checked with.
WriterTypes == {PT("Int32"), PT("ByteArray"), FixedLen(4), FixedLen(-1)}

\* The column plans mk_writer is checked with.
WriterColumns ==
    {[physical_type |-> pt, logical_type |-> "None", required |-> rq,
      encoding |-> enc, dictionary |-> dict] :
        pt \in WriterTypes, rq \in BOOLEAN, enc \in PlanEncodings, dict \in BOOLEAN}

\* Column::encoding (schema.rs:398-409): the parquet encoding of the plan.
encoding(col) ==
    CASE col.encoding = "None" -> "None"
      [] col.encoding = "Plain" -> "PLAIN"
      [] col.encoding = "Rle" -> "RLE"
      [] col.encoding = "BitPacked" -> "BIT_PACKED"
      [] col.encoding = "DeltaBinaryPacked" -> "DELTA_BINARY_PACKED"
      [] col.encoding = "DeltaLengthByteArray" -> "DELTA_LENGTH_BYTE_ARRAY"
      [] col.encoding = "DeltaByteArray" -> "DELTA_BYTE_ARRAY"
      [] col.encoding = "RleDictionary" -> "RLE_DICTIONARY"
      [] col.encoding = "ByteStreamSplit" -> "BYTE_STREAM_SPLIT"

\* Column::as_parquet (schema.rs:381-396): the primitive type of the
\* column; the builder rejects a FIXED_LEN_BYTE_ARRAY of negative length.
as_parquet(col) ==
    LET length == IF has_length(col.physical_type) THEN col.physical_type.len ELSE 0
    IN IF col.physical_type.pt = "FixedLenByteArray" /\ length < 0
       THEN [ok |-> FALSE, repetition |-> "", physical_type |-> "", length |-> 0,
             logical_type |-> ""]
       ELSE [ok |-> TRUE,
             repetition |-> IF col.required THEN "REQUIRED" ELSE "OPTIONAL",
             physical_type |-> col.physical_type.pt,
             length |-> length,
             logical_type |-> col.logical_type]

\* WriterProperties::builder(): what a column gets when nothing is set for
\* it (lib.rs:89-90).
DefaultColumnProps == [dictionary_enabled |-> TRUE, encoding |-> "Default"]

InitWriter ==
    /\ WriteIdle
    /\ InferIdle
    /\ RunIdle
    /\ m_pc = "start"
    /\ \E n \in 1..MaxWriterCols : m_cols \in [1..n -> WriterColumns]
    /\ m_schema = <<>>
    /\ m_props = <<>>

\* mk_writer, lib.rs:82-88: one field per column, as_parquet unwrapped.
MkWriterSchema ==
    /\ m_pc = "start"
    /\ IF \E c \in 1..Len(m_cols) : ~as_parquet(m_cols[c]).ok
       THEN /\ m_pc' = "panicked"
            /\ UNCHANGED m_schema
       ELSE /\ m_schema' = [c \in 1..Len(m_cols) |-> as_parquet(m_cols[c])]
            /\ m_pc' = "schema"
    /\ UNCHANGED <<m_cols, m_props>>
    /\ UNCHANGED <<r_pc, r_db, r_opts, r_tables, r_files>>
    /\ UNCHANGED wvars
    /\ UNCHANGED ivars

\* mk_writer, lib.rs:89-104: compression, then set_column_encoding for the
\* columns with an encoding; the file is created and the writer opened.
MkWriterProps ==
    /\ m_pc = "schema"
    /\ \E io \in {"Ok", "IoError"} :
         IF io = "Ok"
         THEN /\ m_props' =
                   [compression |-> "ZSTD",
                    columns |-> [c \in 1..Len(m_cols) |->
                                   IF encoding(m_cols[c]) # "None"
                                   THEN [DefaultColumnProps EXCEPT
                                           !.encoding = encoding(m_cols[c])]
                                   ELSE DefaultColumnProps]]
              /\ m_pc' = "opened"
         ELSE /\ m_pc' = "failed"
              /\ UNCHANGED m_props
    /\ UNCHANGED <<m_cols, m_schema>>
    /\ UNCHANGED <<r_pc, r_db, r_opts, r_tables, r_files>>
    /\ UNCHANGED wvars
    /\ UNCHANGED ivars

NextWriter ==
    \/ MkWriterSchema
    \/ MkWriterProps

SpecWriter == InitWriter /\ [][NextWriter]_vars

\* C12: when the sink is opened, for every column plan the sink's
\* dictionary setting of the column equals the plan's dictionary flag, and
\* its encoding of the column equals the plan's encoding when one is set,
\* the default being left in place otherwise.
C12_SinkConfiguration ==
    m_pc = "opened" =>
        \A c \in 1..Len(m_cols) :
            /\ m_props.columns[c].dictionary_enabled = m_cols[c].dictionary
            /\ m_props.columns[c].encoding =
                 IF m_cols[c].encoding = "None" THEN "Default"
                 ELSE encoding(m_cols[c])

\* ======================================================= the command line
\* Largest number of --table flags on the command line.
MaxTableArgs == 1

\* Table names, as strings.
t_items == <<"i", "t", "e", "m", "s">>
t_sqlite3 == <<"s", "q", "l", "i", "t", "e", "3">>
t_sqlite_sequence == <<"s", "q", "l", "i", "t", "e", "_", "s", "e", "q", "u", "e", "n", "c", "e">>
t_sqlite_schema == <<"s", "q", "l", "i", "t", "e", "_", "s", "c", "h", "e", "m", "a">>
t_nope == <<"n", "o", "p", "e">>

\* The pattern of NOT LIKE (lib.rs:57, main.rs:67) and the reserved prefix.
p_sqlite == <<"s", "q", "l", "i", "t", "e", "_", "%">>
s_sqlite_ == <<"s", "q", "l", "i", "t", "e", "_">>

\* SQL LIKE of SQLite: '%' matches any run of characters, '_' any one
\* character, a letter matches itself in either case.
RECURSIVE sql_like(_, _)
sql_like(str, pat) ==
    IF pat = <<>> THEN str = <<>>
    ELSE IF Head(pat) = "%"
         THEN \E k \in 0..Len(str) : sql_like(SubSeq(str, k + 1, Len(str)), Tail(pat))
         ELSE /\ str # <<>>
              /\ \/ Head(pat) = "_"
                 \/ to_uppercase(<<Head(str)>>) = to_uppercase(<<Head(pat)>>)
              /\ sql_like(Tail(str), Tail(pat))

\* The rows of SELECT name FROM sqlite_schema WHERE type = 'table' AND
\* name NOT LIKE 'sqlite_%' (lib.rs:53-61, main.rs:63-71).
NotLikeSqlite(name) == ~sql_like(name, p_sqlite)

user_tables(db) == SelectSeq(db, NotLikeSqlite)

\* format!("{}.parquet", table) (lib.rs:71, main.rs:80)
parquet_file(table) == table \o <<".", "p", "a", "r", "q", "u", "e", "t">>

\* Whether the COUNT query of mk_table finds the table (lib.rs:113).
table_exists(db, table) ==
    \/ table = t_sqlite_schema
    \/ \E i \in 1..Len(db) : db[i] = table

\* The databases the runs are checked with: the tables of sqlite_schema.
DbTables == <<t_items, t_sqlite3, t_sqlite_sequence>>

IsChosen(S) == [i \in 1..Len(DbTables) |-> i \in S]

RECURSIVE Choose(_, _)
Choose(names, chosen) ==
    IF names = <<>> THEN <<>>
    ELSE (IF Head(chosen) THEN <<Head(names)>> ELSE <<>>)
         \o Choose(Tail(names), Tail(chosen))

Databases == {Choose(DbTables, IsChosen(S)) : S \in SUBSET (1..Len(DbTables))}

\* The --table flags and the tables of a --config file.
ArgNames == {t_items, t_sqlite3, t_nope}

TableArgs == UNION {[1..k -> ArgNames] : k \in 0..MaxTableArgs}

ConfigKeys == SUBSET {t_items}

\* HashMap::keys in some order (main.rs:61).
KeyOrders(keys) ==
    {f \in [1..Cardinality(keys) -> keys] :
        \A a, b \in 1..Cardinality(keys) : a # b => f[a] # f[b]}

InitRun ==
    /\ WriteIdle
    /\ InferIdle
    /\ WriterIdle
    /\ r_pc = "start"
    /\ r_db \in Databases
    /\ \E ta \in TableArgs, inc \in BOOLEAN, cfg \in ConfigKeys :
         r_opts = [table |-> ta, include_schema |-> inc, config |-> cfg]
    /\ r_tables = <<>>
    /\ r_files = <<>>

\* run, lib.rs:50-69: the tables to extract.
RunLib ==
    /\ r_pc = "start"
    /\ LET tables == IF r_opts.table = <<>> THEN user_tables(r_db) ELSE r_opts.table
       IN r_tables' = IF r_opts.include_schema
                      THEN Append(tables, t_sqlite_schema) ELSE tables
    /\ r_pc' = "run_loop"
    /\ UNCHANGED <<r_db, r_opts, r_files>>
    /\ UNCHANGED <<m_pc, m_cols, m_schema, m_props>>
    /\ UNCHANGED wvars
    /\ UNCHANGED ivars

\* main, main.rs:46-78: the tables to extract; without --table the keys of
\* a non-empty --config take the place of the tables of the database.
Main ==
    /\ r_pc = "start"
    /\ \E keys \in KeyOrders(r_opts.config) :
         LET tables == IF r_opts.table # <<>> THEN r_opts.table
                       ELSE IF r_opts.config # {} THEN keys
                       ELSE user_tables(r_db)
         IN r_tables' = IF r_opts.include_schema
                        THEN Append(tables, t_sqlite_schema) ELSE tables
    /\ r_pc' = "main_loop"
    /\ UNCHANGED <<r_db, r_opts, r_files>>
    /\ UNCHANGED <<m_pc, m_cols, m_schema, m_props>>
    /\ UNCHANGED wvars
    /\ UNCHANGED ivars

\* run, lib.rs:70-73: one table written to <table>.parquet; the error of
\* mk_table is returned.
ExtractTableLib ==
    /\ r_pc = "run_loop"
    /\ r_tables # <<>>
    /\ IF table_exists(r_db, Head(r_tables))
       THEN /\ r_files' = Append(r_files, parquet_file(Head(r_tables)))
            /\ r_tables' = Tail(r_tables)
            /\ UNCHANGED r_pc
       ELSE /\ r_pc' = "aborted"
            /\ UNCHANGED <<r_tables, r_files>>
    /\ UNCHANGED <<r_db, r_opts>>
    /\ UNCHANGED <<m_pc, m_cols, m_schema, m_props>>
    /\ UNCHANGED wvars
    /\ UNCHANGED ivars

\* main, main.rs:79-83: as run, the table's entry of --config being taken
\* out of the map and its queries read in place of the table.
ExtractTableMain ==
    /\ r_pc = "main_loop"
    /\ r_tables # <<>>
    /\ LET table == Head(r_tables)
           config == table \in r_opts.config
       IN /\ r_opts' = [r_opts EXCEPT !.config = @ \ {table}]
          /\ IF config \/ table_exists(r_db, table)
             THEN /\ r_files' = Append(r_files, parquet_file(table))
                  /\ r_tables' = Tail(r_tables)
                  /\ UNCHANGED r_pc
             ELSE /\ r_pc' = "aborted"
                  /\ UNCHANGED <<r_tables, r_files>>
    /\ UNCHANGED r_db
    /\ UNCHANGED <<m_pc, m_cols, m_schema, m_props>>
    /\ UNCHANGED wvars
    /\ UNCHANGED ivars

\* lib.rs:74, main.rs:84: Ok(()) once every table is written.
RunReturn ==
    /\ r_pc \in {"run_loop", "main_loop"}
    /\ r_tables = <<>>
    /\ r_pc' = "done"
    /\ UNCHANGED <<r_db, r_opts, r_tables, r_files>>
    /\ UNCHANGED <<m_pc, m_cols, m_schema, m_props>>
    /\ UNCHANGED wvars
    /\ UNCHANGED ivars

NextRun ==
    \/ RunLib
    \/ Main
    \/ ExtractTableLib
    \/ ExtractTableMain
    \/ RunReturn

SpecRun == InitRun /\ [][NextRun]_vars

\* The tables of the database whose name does not start with 'sqlite_'.
UserTables == {r_db[i] : i \in {j \in 1..Len(r_db) : ~starts_with(r_db[j], s_sqlite_)}}

Named == {r_opts.table[i] : i \in 1..Len(r_opts.table)}

\* C14: a run without --table extracts every table of the database whose
\* name does not start with 'sqlite_', one file <table>.parquet per table;
\* a run with --table extracts exactly the named tables; --include-schema
\* adds sqlite_schema in both cases.
C14_TableSelection ==
    r_pc = "done" =>
        {r_files[i] : i \in 1..Len(r_files)} =
            {parquet_file(t) :
                t \in (IF r_opts.table = <<>> THEN UserTables ELSE Named)
                      \cup (IF r_opts.include_schema THEN {t_sqlite_schema} ELSE {})}

\* ------------------------------------------------- claims on the inference
HasNull(cells) == \E r \in 1..Len(cells) : cells[r] = Null

\* C7: required = declared NOT NULL or no NULL in the column; so a column
\* inferred optional is not declared NOT NULL and holds a NULL; and for a
\* column declared NOT NULL the null-count query is not run.
C7_Nullability ==
    i_pc = "done" =>
        /\ i_out.required = (i_col.not_null \/ ~HasNull(i_col.cells))
        /\ ~i_out.required => (~i_col.not_null /\ HasNull(i_col.cells))
        /\ i_col.not_null => "CountNulls" \notin i_log.queries

C7_Witness ==
    /\ i_pc = "done"
    /\ ~i_out.required
    /\ "CountNulls" \in i_log.queries
    /\ Len(i_col.cells) >= 2

FitsI32(cells) ==
    \A r \in 1..Len(cells) :
        cells[r] # Null => (WLe(I32_MIN, cells[r].v) /\ WLe(cells[r].v, I32_MAX))

\* C8: a column of an integer-family declared type gets Int32 exactly when
\* every value of the column lies in [-2^31, 2^31 - 1], else Int64; the
\* values 1, 2147483647 give Int32 and a further row 2147483648 gives Int64.
C8_IntegerWidth ==
    (i_pc = "done" /\ IntegerFamily(i_info.type_name) /\ i_info.type_name # s_INTERVAL)
        => i_out.physical_type =
             IF FitsI32(i_col.cells) THEN PT("Int32") ELSE PT("Int64")

C8_Witness ==
    /\ i_pc = "done"
    /\ i_col.type_string = <<"B", "I", "G", "I", "N", "T">>
    /\ i_col.cells = <<Integer(W(1)), Integer(I32_MAX), Integer(WSucc(I32_MAX))>>
    /\ i_out.physical_type = PT("Int64")

SampleDistinct == Cardinality({i_log.sample[k] : k \in 1..Len(i_log.sample)} \ {Null})

\* C9: with s the rows of the sample (at most 1000) and d its distinct
\* values, the dictionary is enabled exactly when the column is not
\* Boolean, s > 0 and d/s < 0.75; d/s = 0.75 and an empty sample disable it.
C9_Dictionary ==
    i_pc = "done" =>
        /\ Len(i_log.sample) <= SampleLimit
        /\ i_out.dictionary =
             (/\ i_out.physical_type # PT("Boolean")
              /\ Len(i_log.sample) > 0
              /\ 4 * SampleDistinct < 3 * Len(i_log.sample))

C9_Witness ==
    /\ i_pc = "done"
    /\ i_out.physical_type # PT("Boolean")
    /\ Len(i_log.sample) = 4
    /\ SampleDistinct = 3
    /\ ~i_out.dictionary

\* The type name of a declared type: what precedes the first '[' or '(',
\* in upper case.
DeclaredName(type_string) ==
    LET i == split_at(type_string)
    IN to_uppercase(IF i = 0 THEN type_string ELSE SubSeq(type_string, 1, i - 1))

\* C10: a declared type whose name is not in the lookup table, with or
\* without an annotation after the name, never makes the inference fail or
\* crash: the column gets a plan of type ByteArray and a warning.
C10_UnknownTypes ==
    (~KnownTypeName(DeclaredName(i_col.type_string)) /\ i_pc \in {"parsed", "done", "panicked"})
        => /\ i_pc # "panicked"
           /\ i_pc = "done" =>
                (/\ i_out.physical_type = PT("ByteArray")
                 /\ "UnknownType" \in i_log.warnings)

\* The positions at which a run has ended: no action is enabled there.
Ended == pc \in {"done", "aborted", "panicked"}

\* C19: for every table (every cursor yielding all its rows) and every
\* group_size >= 1, the write loop ends after finitely many row groups and
\* the sink is finalized: a run in which neither the callback nor the sink
\* failed ends finalized; each row group moves the cursor of the first
\* column forward by at least one row, and no step moves it back; for an
\* empty table no row group is opened and the sink is finalized with zero
\* row groups.
C19_Termination ==
    /\ []((Ended /\ group_size_arg >= 1 /\ WholeTable /\ ~ev.cb_err /\ ~ev.batch_err)
            => (pc = "done" /\ sink.closed))
    /\ [][(pc = "write_col" /\ n_cols_written = 0 /\ pc' = "close_column")
            => cur'[1] > cur[1]]_vars
    /\ [][cur'[1] >= cur[1] /\ cur'[1] <= Len(data[1]) + 1]_vars
    /\ [](pc = "done" /\ WholeTable /\ n_rows = 0
            => (/\ Len(sink.groups) = 0
                /\ CallsUpTo(Len(log), "next_row_group") = {}
                /\ sink.closed))

\* C18: every column plan infer_schema produces with physical type
\* FixedByteArray(n) has n > 0, whatever the declared type and its length
\* annotation (a zero or negative length on a blob/binary type included).
C18_FixedLengthPositive ==
    (i_pc = "done" /\ i_out.physical_type.pt = "FixedLenByteArray")
        => i_out.physical_type.len > 0

\* The cells a write of column c reads: the current row of the cursor and
\* the rows after it, as many as the column's Take yields.
RowsRead(c) == Min(group_size + 1, Remaining(c))

CellsRead(c) == SubSeq(data[c], cur[c], cur[c] + RowsRead(c) - 1)

NonNull(x) == x # Null

\* C17: the coercion is never invoked on a Null cell.  For every cell the
\* write loop reads, a Null appends marker 0 and no value, another cell
\* marker 1 and its coerced value; so in every batch there are as many
\* markers as rows read and as many values as markers equal to 1, and the
\* unreachable branches of the coercion are never reached.
C17_NullInterception ==
    /\ [](error # "unreachable")
    /\ [][(pc = "write_col" /\ pc' = "close_column") =>
            LET c == n_cols_written + 1
                read == CellsRead(c)
                nonnull == SelectSeq(read, NonNull)
                b == col_wtr'
            IN /\ Len(b.defs) = Len(read)
               /\ \A i \in 1..Len(read) :
                    b.defs[i] = IF read[i] = Null THEN 0 ELSE 1
               /\ Len(b.vals) = Cardinality({i \in 1..Len(b.defs) : b.defs[i] = 1})
               /\ Len(b.vals) = Len(nonnull)
               /\ \A i \in 1..Len(nonnull) :
                    b.vals[i] = from_sqlite(plan[c], nonnull[i])]_vars

C17_Witness ==
    /\ pc = "close_column"
    /\ \E i \in 1..Len(col_wtr.defs) : col_wtr.defs[i] = 0
    /\ \E i \in 1..Len(col_wtr.defs) : col_wtr.defs[i] = 1
    /\ Len(col_wtr.vals) < Len(col_wtr.defs)
====
